---- MODULE Spec2Model ----
(***************************************************************************)
(* The Savoy monophonic synthesiser (src/src/lib.rs): the note tracker,    *)
(* the clock, the per-sample render loop and the five atomic parameters.   *)
(*                                                                         *)
(* Reals are exact rationals <<n, d>> (d > 0, lowest terms); the rounding  *)
(* of f32/f64 is not modelled.  sin is kept symbolic: a sample value is    *)
(* c * sin(2*pi*phase), or the plain number c.                             *)
(*                                                                         *)
(* The audio thread runs process_events and process one after the other;   *)
(* process is split into one step per loop iteration so that the control   *)
(* thread's set_parameter can fall between two samples of a block.  One    *)
(* iteration reads each AtomicFloat at most once, and writes to different  *)
(* parameters commute, so a finer split adds no behaviour.                 *)
(***************************************************************************)
EXTENDS Integers, Sequences, FiniteSets, TLC

VARIABLES
    time,            \* Savoy.time, seconds
    note_duration,   \* Savoy.note_duration, seconds
    note,            \* Savoy.note: None or Some(pitch)
    velocity,        \* Savoy.velocity
    params,          \* SavoyParameters: the five AtomicFloat cells
    pc,              \* audio thread: "host" (outside process) or "loop"
    samples,         \* process: buffer.samples()
    sample_index,    \* process: the loop counter
    output_buffer,   \* process: the output channels being filled
    frames,          \* process: the locals of each iteration of this call
    alpha,           \* the gain of the most recently rendered sample
    entry,           \* history: Savoy.time when the running process call began,
                     \*          and whether a note-on that stole a note preceded it
    last,            \* history: the last handler the audio thread ran
    history,         \* history: the last note-on pitch, whether its note-off came,
                     \*          and the sustain level if it came during Sustain
    control,         \* history: the last set_parameter call, the parameters before
                     \*          it, and the last value written to each index
    epoch            \* history: Savoy.time at the start of the behaviour

vars == <<time, note_duration, note, velocity, params, pc, samples,
          sample_index, output_buffer, frames, alpha, entry, last, history,
          control, epoch>>

-----------------------------------------------------------------------------
(* Bounds of the model *)

\* samples rendered with a note held that a behaviour may accumulate
MaxTime == 3
\* largest block (buffer.samples()) the host hands to process
MaxBlock == 2
\* the short attack the control thread may set, in samples
AttackSamples == 2
\* resolution of the oscillator control under SpecOsc: steps per unit
OscGrid == 4

(* Program constants *)
SampleRate == 44100
A4_PITCH == 69
A4_FREQ == 440
OutputCount == 2
NOTE_OFF == 128
NOTE_ON == 144

\* Option<T>: None is the empty tuple, Some(x) the one-element tuple
None == <<>>
Some(x) == <<x>>

\* enum Oscillator
Saw == "Saw"
Sine == "Sine"
Square == "Square"
Triangle == "Triangle"

-----------------------------------------------------------------------------
(* Exact rational arithmetic standing for f32/f64 *)

RECURSIVE GCD(_, _)
GCD(a, b) == IF b = 0 THEN a ELSE GCD(b, a % b)

Abs(x) == IF x < 0 THEN -x ELSE x

\* n / d in lowest terms; over 0 it is an infinity, or NaN for 0 / 0
Rat(n, d) ==
    LET s == IF d < 0 THEN -1 ELSE 1
        g == GCD(Abs(n), Abs(d))
    IN  IF d = 0 THEN <<(IF n > 0 THEN 1 ELSE IF n < 0 THEN -1 ELSE 0), 0>>
        ELSE <<(s * n) \div g, (s * d) \div g>>

Zero == <<0, 1>>
One == <<1, 1>>
MinusOne == <<-1, 1>>
\* the f64 results of dividing by zero, as fractions over 0
Inf == <<1, 0>>
NaN == <<0, 0>>

RLt(a, b) == a[1] * b[2] < b[1] * a[2]
\* every comparison with NaN is false
RLe(a, b) == a # <<0, 0>> /\ b # <<0, 0>> /\ a[1] * b[2] <= b[1] * a[2]
RAdd(a, b) == Rat(a[1] * b[2] + b[1] * a[2], a[2] * b[2])
RSub(a, b) == Rat(a[1] * b[2] - b[1] * a[2], a[2] * b[2])
RMul(a, b) == Rat(a[1] * b[1], a[2] * b[2])
\* f64 division: x / 0 is an infinity, 0 / 0 is NaN
RDiv(a, b) ==
    IF b[1] = 0 THEN (IF a[1] = 0 THEN NaN ELSE Inf)
    ELSE Rat(a[1] * b[2], a[2] * b[1])
RFloor(a) == a[1] \div a[2]
RAbs(a) == <<Abs(a[1]), a[2]>>
\* Range::contains for lo..hi (half open)
InRange(lo, hi, x) == RLe(lo, x) /\ RLt(x, hi)

(* A sample value: the number c, or c * sin(2 * pi * sin) *)
Const(r) == [c |-> r, sin |-> None]
SinOf(phase) == IF phase = Zero THEN Const(Zero) ELSE [c |-> One, sin |-> phase]
Scale(v, r) ==
    IF v.c = Zero \/ r = Zero THEN Const(Zero) ELSE [v EXCEPT !.c = RMul(v.c, r)]

-----------------------------------------------------------------------------
(* Pure functions of lib.rs *)

\* f64 remainder: numerator - floor(numerator / denominator) * denominator
fmod(numerator, denominator) ==
    LET remainder == Rat(RFloor(RDiv(numerator, denominator)), 1)
    IN  RSub(numerator, RMul(remainder, denominator))

RECURSIVE Pow2(_)
Pow2(n) == IF n = 0 THEN 1 ELSE 2 * Pow2(n - 1)

\* `pitch as i8`: the u8 reinterpreted in two's complement
AsI8(pitch) == IF pitch >= 128 THEN pitch - 256 ELSE pitch

\* the values of i8, and the two's complement wrap of an integer into them
I8 == -128..127
WrapI8(x) == ((x + 128) % 256) - 128

\* the subtraction done on the u8 before the cast: `(pitch - A4_PITCH) as i8`
semitone_offset_mut_unsigned(pitch) ==
    LET exact == pitch - A4_PITCH
    IN  [value |-> WrapI8(exact % 256), overflow |-> exact < 0]

\* `pitch as i8 - A4_PITCH` in i8: the value a release build computes, and
\* whether the subtraction overflows (a debug build panics there)
semitone_offset(pitch) ==
    LET exact == AsI8(pitch) - A4_PITCH
    IN  [value |-> WrapI8(exact), overflow |-> exact \notin I8]

\* the argument of exp2: f64::from(semitones) / 12.
freq_exponent(pitch) == Rat(semitone_offset(pitch).value, 12)

\* f64::exp2.  Its value is rational only at an integer, and only there is the
\* operator defined.
exp2(x) ==
    IF x[2] = 1
    THEN (IF x[1] >= 0 THEN Rat(Pow2(x[1]), 1) ELSE Rat(1, Pow2(-x[1])))
    ELSE CHOOSE r \in {} : FALSE

\* exp2((pitch as i8 - A4_PITCH) / 12) * A4_FREQ: defined for whole octaves
\* around A4, which are the pitches the model renders
midi_pitch_to_freq(pitch) ==
    RMul(exp2(freq_exponent(pitch)), Rat(A4_FREQ, 1))

midi_velocity_to_amplitude(v) == Rat(v, 127)

time_per_sample == Rat(1, SampleRate)

\* Savoy::oscillator: Some(shape) or None
oscillator_mut_closed(osc_parameter) ==
    IF RLe(Zero, osc_parameter) /\ RLe(osc_parameter, Rat(1, 4)) THEN Some(Saw)
    ELSE IF InRange(Rat(1, 4), Rat(1, 2), osc_parameter) THEN Some(Square)
    ELSE IF InRange(Rat(1, 2), Rat(3, 4), osc_parameter) THEN Some(Triangle)
    ELSE IF InRange(Rat(3, 4), One, osc_parameter) THEN Some(Sine)
    ELSE None

oscillator(osc_parameter) ==
    IF InRange(Zero, Rat(1, 4), osc_parameter) THEN Some(Saw)
    ELSE IF InRange(Rat(1, 4), Rat(1, 2), osc_parameter) THEN Some(Square)
    ELSE IF InRange(Rat(1, 2), Rat(3, 4), osc_parameter) THEN Some(Triangle)
    ELSE IF InRange(Rat(3, 4), One, osc_parameter) THEN Some(Sine)
    ELSE None

\* process: `match osc { Some(osc) => osc, None => Oscillator::Sine }`
shape_of(osc) == IF osc = None THEN Sine ELSE osc[1]

\* the fraction of the period elapsed at `t`: local_time / full_period_time
period_fraction(t, pitch) ==
    LET full_period_time == RDiv(One, midi_pitch_to_freq(pitch))
        local_time == fmod(t, full_period_time)
    IN  RDiv(local_time, full_period_time)

saw_signal(t, pitch) ==
    Const(RSub(RMul(period_fraction(t, pitch), Rat(2, 1)), One))

\* sin(time * freq * TAU), kept symbolic by its phase in [0, 1)
sine_signal(t, pitch) ==
    LET turns == RMul(t, midi_pitch_to_freq(pitch))
    IN  SinOf(RSub(turns, Rat(RFloor(turns), 1)))

\* f64::signum: 1.0 for a positive number and for +0.0, -1.0 for a negative
\* number; it has no zero result
signum(x) == IF RLt(x, Zero) THEN MinusOne ELSE One

\* sin(2 * PI * freq * time).signum().  The sine is +0.0 at time 0, positive in
\* the first half of the period and negative in the second; at a later whole or
\* half period f64 leaves a rounding residue, and no modelled instant falls on one.
square_signal(t, pitch) ==
    LET turns == RMul(t, midi_pitch_to_freq(pitch))
        phase == RSub(turns, Rat(RFloor(turns), 1))
        sine == IF turns = Zero THEN Zero
                ELSE IF RLt(phase, Rat(1, 2)) THEN One ELSE MinusOne
    IN  Const(signum(sine))

\* the falling slope kept to the end of the period
triangle_signal_mut_fold(t, pitch) ==
    LET value == period_fraction(t, pitch)
    IN  IF RLt(value, Rat(1, 4)) THEN Const(RMul(value, Rat(4, 1)))
        ELSE Const(RSub(Rat(2, 1), RMul(value, Rat(4, 1))))

triangle_signal(t, pitch) ==
    LET value == period_fraction(t, pitch)
    IN  IF RLt(value, Rat(1, 4)) THEN Const(RMul(value, Rat(4, 1)))
        ELSE IF RLt(value, Rat(3, 4)) THEN Const(RSub(Rat(2, 1), RMul(value, Rat(4, 1))))
        ELSE Const(RSub(RMul(value, Rat(4, 1)), Rat(4, 1)))

signal(t, pitch, shape) ==
    CASE shape = Saw -> saw_signal(t, pitch)
      [] shape = Sine -> sine_signal(t, pitch)
      [] shape = Square -> square_signal(t, pitch)
      [] shape = Triangle -> triangle_signal(t, pitch)

-----------------------------------------------------------------------------
(* The note tracker: note_on, note_off, process_midi_event, process_events *)

Self == [time |-> time, note_duration |-> note_duration,
         note |-> note, velocity |-> velocity]

note_on_mut_keeps_duration(self, n, v) ==
    [self EXCEPT !.note = Some(n), !.velocity = v]

\* the note-on restarts the clock with the note duration
note_on_mut_resets_time(self, n, v) ==
    [self EXCEPT !.time = Zero, !.note_duration = Zero, !.note = Some(n),
                 !.velocity = v]

note_on(self, n, v) ==
    [self EXCEPT !.note_duration = Zero, !.note = Some(n), !.velocity = v]

note_off_mut_any_pitch(self, n) ==
    [self EXCEPT !.note = None]

note_off_mut_resets_duration(self, n) ==
    IF self.note = Some(n) THEN [self EXCEPT !.note = None]
    ELSE [self EXCEPT !.note_duration = Zero]

note_off(self, n) ==
    IF self.note = Some(n) THEN [self EXCEPT !.note = None] ELSE self

\* every status byte but note-on is taken for a note-off
process_midi_event_mut_else_off(self, data) ==
    CASE data[1] = NOTE_ON -> note_on(self, data[2], data[3])
      [] OTHER -> note_off(self, data[2])

process_midi_event(self, data) ==
    CASE data[1] = NOTE_OFF -> note_off(self, data[2])
      [] data[1] = NOTE_ON -> note_on(self, data[2], data[3])
      [] OTHER -> self

\* process_events: every Event::Midi of the list, in order
RECURSIVE process_events(_, _)
process_events(self, events) ==
    IF events = <<>> THEN self
    ELSE process_events(process_midi_event(self, Head(events)), Tail(events))

-----------------------------------------------------------------------------
(* The parameters *)

DefaultParameters ==
    [oscillator |-> Zero, attack |-> Zero, decay |-> One,
     sustain |-> One, release |-> Zero]

\* an index that names no parameter is taken for the last one
set_parameter_mut_clamps(ps, index, value) ==
    CASE index = 0 -> [ps EXCEPT !.oscillator = value]
      [] index = 1 -> [ps EXCEPT !.attack = value]
      [] index = 2 -> [ps EXCEPT !.decay = value]
      [] index = 3 -> [ps EXCEPT !.sustain = value]
      [] OTHER -> [ps EXCEPT !.release = value]

set_parameter(ps, index, value) ==
    CASE index = 0 -> [ps EXCEPT !.oscillator = value]
      [] index = 1 -> [ps EXCEPT !.attack = value]
      [] index = 2 -> [ps EXCEPT !.decay = value]
      [] index = 3 -> [ps EXCEPT !.sustain = value]
      [] index = 4 -> [ps EXCEPT !.release = value]
      [] OTHER -> ps

\* decay and sustain read from each other's cell
get_parameter_mut_swapped(ps, index) ==
    CASE index = 0 -> ps.oscillator
      [] index = 1 -> ps.attack
      [] index = 2 -> ps.sustain
      [] index = 3 -> ps.decay
      [] index = 4 -> ps.release
      [] OTHER -> Zero

get_parameter(ps, index) ==
    CASE index = 0 -> ps.oscillator
      [] index = 1 -> ps.attack
      [] index = 2 -> ps.decay
      [] index = 3 -> ps.sustain
      [] index = 4 -> ps.release
      [] OTHER -> Zero

-----------------------------------------------------------------------------
(* process: one iteration of `for sample_index in 0..samples` *)

\* the ramp without its comparison: the division alone
attack_alpha_mut_no_guard(duration, attack) == RDiv(duration, attack)

\* `if self.note_duration < attack { self.note_duration / attack } else { 1.0 }`

attack_alpha(duration, attack) ==
    IF RLt(duration, attack) THEN RDiv(duration, attack) ELSE One

\* `if release > 0.0 { 1.0 } else { 0.0 }`
release_alpha(release) == IF RLt(Zero, release) THEN One ELSE Zero

\* self.time after one iteration: only the note branch adds per_sample
time_after_mut_always(self) == RAdd(self.time, time_per_sample)

time_after(self) ==
    IF self.note # None THEN RAdd(self.time, time_per_sample) ELSE self.time

\* the note duration counted on silent samples too
note_duration_after_mut_always(self) == RAdd(self.note_duration, time_per_sample)

\* self.note_duration after one iteration
note_duration_after(self) ==
    IF self.note # None THEN RAdd(self.note_duration, time_per_sample)
    ELSE self.note_duration

\* the parameter cell the note branch reads for `attack`
attack_cell_mut_decay(ps) == ps.decay

attack_cell(ps) == ps.attack

\* Savoy::envelope.  No caller: process computes its gain inline and never
\* reads decay or sustain.
envelope(self, ps, sig) ==
    LET attack == ps.attack
        decay == ps.decay
        a == IF RLt(self.note_duration, attack)
             THEN RDiv(self.note_duration, attack) ELSE One
        b == IF RLe(a, self.note_duration)
             THEN RSub(decay, self.note_duration) ELSE a
    IN  Scale(sig, b)

\* envelope.rs: Envelope::process matches on the stage and every arm is empty;
\* no Envelope is ever constructed
EnvelopeStage == {"Off", "Attack", "Decay", "Sustain", "Release"}
Envelope_process(env, sig, stage) == env

\* the locals of one iteration, from the state and the parameters it reads
iteration(self, ps) ==
    LET osc == oscillator(ps.oscillator)
        shape == shape_of(osc)
    IN  IF self.note # None
        THEN LET pitch == self.note[1]
                 sig == signal(self.time, pitch, shape)
                 amplitude == midi_velocity_to_amplitude(self.velocity)
                 attack == attack_cell(ps)
                 a == attack_alpha(self.note_duration, attack)
             IN  [time |-> self.time, note_duration |-> self.note_duration,
                  note |-> self.note, signal |-> Some(sig),
                  oscillator |-> ps.oscillator, shape |-> shape,
                  attack |-> Some(attack), release |-> None, alpha |-> a,
                  output_sample |-> Scale(Scale(sig, a), amplitude)]
        ELSE LET release == ps.release
                 a == release_alpha(release)
             IN  [time |-> self.time, note_duration |-> self.note_duration,
                  note |-> self.note, signal |-> None,
                  oscillator |-> ps.oscillator, shape |-> shape,
                  attack |-> None, release |-> Some(release), alpha |-> a,
                  output_sample |-> Const(a)]

\* the sample written to the first channel alone
write_channels_mut_first_only(buffer, index, output_sample) ==
    [buffer EXCEPT ![1][index + 1] = Some(output_sample)]

\* `for buffer_index in 0..output_count { buffer[sample_index] = output_sample }`
write_channels(buffer, index, output_sample) ==
    [buffer_index \in DOMAIN buffer |->
        [buffer[buffer_index] EXCEPT ![index + 1] = Some(output_sample)]]

-----------------------------------------------------------------------------
(* Inputs *)

\* A3 and A4: whole octaves, so their frequencies are rational
Pitches == {69, 57}
Velocities == {127, 0}
\* note off, note on, and a control change that the plugin ignores
Statuses == {NOTE_OFF, NOTE_ON, 176}
\* note-on with either velocity; the other messages with a zero third byte
MidiData ==
    {<<NOTE_ON, p, v>> : p \in Pitches, v \in Velocities}
        \cup {<<st, p, 0>> : st \in Statuses \ {NOTE_ON}, p \in Pitches}
\* the event lists of one process_events call: every single event, and every
\* pair of note events at full velocity
NoteData == {<<NOTE_ON, p, 127>> : p \in Pitches} \cup {<<NOTE_OFF, p, 0>> : p \in Pitches}
EventLists == {<<d>> : d \in MidiData} \cup {<<d, e>> : d \in NoteData, e \in NoteData}
BlockSizes == 1..MaxBlock

\* the data bytes of MIDI, and the bytes a note-on may carry as its pitch:
\* those, the first byte past them and the last u8
MidiPitches == 0..127
PitchInputs == MidiPitches \cup {128, 255}

\* what the control thread writes to the envelope knobs and to indices that
\* name no parameter: <<index, value>>
ParamInputs ==
    {<<1, Zero>>, <<1, Rat(AttackSamples, SampleRate)>>,
     <<2, Zero>>, <<2, One>>,
     <<3, Rat(1, 2)>>, <<3, One>>,
     <<4, Zero>>, <<4, Rat(1, 2)>>,
     <<5, Rat(1, 2)>>, <<-1, Rat(1, 2)>>}

\* the oscillator control on a grid reaching past both ends of [0, 1]
OscInputs == {<<0, Rat(k, OscGrid)>> : k \in -1..(OscGrid + 1)}

\* the knobs that process reads while it renders: oscillator, attack, release
KnobInputs ==
    {<<0, Zero>>, <<0, One>>,
     <<1, Zero>>, <<1, Rat(AttackSamples, SampleRate)>>,
     <<4, Zero>>, <<4, Rat(1, 2)>>}

\* the oscillator control at the start of the Saw, Square and Triangle ranges
WaveInputs == {<<0, Zero>>, <<0, Rat(1, 4)>>, <<0, Rat(1, 2)>>}

\* samples already rendered when a behaviour of SpecWave starts: with 30 the
\* two pitches are in the first and second quarter of their period, with 80 in
\* the second and the fourth
WaveStarts == {30, 80}

\* what the host writes to any index, valid or not: <<index, value>>
CallInputs ==
    {<<i, v>> : i \in 0..4, v \in {Zero, Rat(1, 2), One}}
        \cup {<<i, v>> : i \in {5, -1}, v \in {Rat(1, 2), One}}

-----------------------------------------------------------------------------
(* History *)

\* `level`: Some(sustain) when the note-off of the last note-on came after the
\* note had been held for at least attack + decay seconds, None otherwise
track(h, self, ps, data) ==
    CASE data[1] = NOTE_ON ->
             [on |-> Some(data[2]), off |-> FALSE, level |-> None]
      [] data[1] = NOTE_OFF /\ h.on = Some(data[2]) /\ ~h.off ->
             [h EXCEPT !.off = TRUE,
                       !.level = IF RLe(RAdd(ps.attack, ps.decay), self.note_duration)
                                 THEN Some(ps.sustain) ELSE None]
      [] OTHER -> h

RECURSIVE tracked(_, _, _, _)
tracked(h, self, ps, events) ==
    IF events = <<>> THEN h
    ELSE tracked(track(h, self, ps, Head(events)),
                 process_midi_event(self, Head(events)), ps, Tail(events))

Front(events) == SubSeq(events, 1, Len(events) - 1)

\* the control thread's log before any call, and after set_parameter(index, value)
NoCalls ==
    [call |-> None, before |-> DefaultParameters,
     written |-> [i \in 0..4 |-> None]]

logged(c, ps, index, value) ==
    [call |-> Some(<<index, value>>),
     before |-> ps,
     written |-> IF index \in 0..4 THEN [c.written EXCEPT ![index] = Some(value)]
                 ELSE c.written]

-----------------------------------------------------------------------------
(* Actions *)

Init ==
    /\ time = Zero
    /\ note_duration = Zero
    /\ note = None
    /\ velocity = 0
    /\ params = DefaultParameters
    /\ pc = "host"
    /\ samples = 0
    /\ sample_index = 0
    /\ output_buffer = <<>>
    /\ frames = <<>>
    /\ alpha = Zero
    /\ entry = [time |-> Zero, retrigger |-> FALSE]
    /\ last = [op |-> "new", data |-> <<>>, before |-> None]
    /\ history = [on |-> None, off |-> FALSE, level |-> None]
    /\ control = NoCalls
    /\ epoch = Zero

\* Plugin::process_events, between two process calls
ProcessEvents(events) ==
    /\ pc = "host"
    /\ LET self == process_events(Self, events)
           before == process_events(Self, Front(events))
       IN  /\ time' = self.time
           /\ note_duration' = self.note_duration
           /\ note' = self.note
           /\ velocity' = self.velocity
           /\ last' = [op |-> "midi", data |-> events[Len(events)],
                       before |-> before.note]
    /\ history' = tracked(history, Self, params, events)
    /\ UNCHANGED <<params, pc, samples, sample_index, output_buffer, frames,
                   alpha, entry, control, epoch>>

\* Plugin::process up to the loop: the host's buffer of n samples
ProcessBegin(n) ==
    /\ pc = "host"
    /\ note # None =>
           RLe(RAdd(time, Rat(n, SampleRate)), RAdd(epoch, Rat(MaxTime, SampleRate)))
    /\ pc' = "loop"
    /\ samples' = n
    /\ sample_index' = 0
    /\ output_buffer' = [buffer_index \in 1..OutputCount |-> [i \in 1..n |-> None]]
    /\ frames' = <<>>
    /\ entry' = [time |-> time,
                  retrigger |-> /\ last.op = "midi"
                                /\ last.data[1] = NOTE_ON
                                /\ last.before # None]
    /\ last' = [op |-> "process", data |-> <<>>, before |-> note]
    /\ UNCHANGED <<time, note_duration, note, velocity, params, alpha, history,
                   control, epoch>>

\* one iteration of the loop
ProcessSample ==
    /\ pc = "loop"
    /\ sample_index < samples
    /\ LET f == iteration(Self, params)
       IN  /\ frames' = Append(frames, f)
           /\ alpha' = f.alpha
           /\ output_buffer' = write_channels(output_buffer, sample_index, f.output_sample)
    /\ time' = time_after(Self)
    /\ note_duration' = note_duration_after(Self)
    /\ sample_index' = sample_index + 1
    /\ UNCHANGED <<note, velocity, params, pc, samples, entry, last, history,
                   control, epoch>>

\* the loop is over: process returns the filled buffer to the host
ProcessReturn ==
    /\ pc = "loop"
    /\ sample_index = samples
    /\ pc' = "host"
    /\ samples' = 0
    /\ sample_index' = 0
    /\ output_buffer' = <<>>
    /\ frames' = <<>>
    /\ entry' = [time |-> Zero, retrigger |-> FALSE]
    /\ UNCHANGED <<time, note_duration, note, velocity, params, alpha, last, history,
                   control, epoch>>

\* PluginParameters::set_parameter, on the control thread, at any moment
SetParameter(index, value) ==
    /\ params' = set_parameter(params, index, value)
    /\ UNCHANGED <<time, note_duration, note, velocity, pc, samples,
                   sample_index, output_buffer, frames, alpha, entry, last, history,
                   epoch>>

Audio ==
    \/ \E events \in EventLists : ProcessEvents(events)
    \/ \E n \in BlockSizes : ProcessBegin(n)
    \/ ProcessSample
    \/ ProcessReturn

Next ==
    \/ Audio
    \/ \E iv \in ParamInputs : SetParameter(iv[1], iv[2]) /\ UNCHANGED control

Spec == Init /\ [][Next]_vars

\* the same program with the control thread turning only the oscillator knob
NextOsc ==
    \/ Audio
    \/ \E iv \in OscInputs : SetParameter(iv[1], iv[2]) /\ UNCHANGED control

SpecOsc == Init /\ [][NextOsc]_vars

\* the same program with the control thread turning the knobs process reads
NextKnobs ==
    \/ Audio
    \/ \E iv \in KnobInputs : SetParameter(iv[1], iv[2]) /\ UNCHANGED control

SpecKnobs == Init /\ [][NextKnobs]_vars

\* the plugin some way into a period: after note_on(69, 127), process over
\* n samples in all and note_off(69), with the parameters at their defaults
InitWave ==
    \E n \in WaveStarts :
        /\ time = Rat(n, SampleRate)
        /\ note_duration = Rat(n, SampleRate)
        /\ note = None
        /\ velocity = 127
        /\ params = DefaultParameters
        /\ pc = "host"
        /\ samples = 0
        /\ sample_index = 0
        /\ output_buffer = <<>>
        /\ frames = <<>>
        /\ alpha = One
        /\ entry = [time |-> Zero, retrigger |-> FALSE]
        /\ last = [op |-> "midi", data |-> <<NOTE_OFF, 69, 0>>, before |-> Some(69)]
        /\ history = [on |-> Some(69), off |-> TRUE, level |-> None]
        /\ control = NoCalls
        /\ epoch = Rat(n, SampleRate)

NextWave ==
    \/ Audio
    \/ \E iv \in WaveInputs : SetParameter(iv[1], iv[2]) /\ UNCHANGED control

SpecWave == InitWave /\ [][NextWave]_vars

\* the note tracker alone: a note-on of any pitch
NextPitch == \E p \in PitchInputs : ProcessEvents(<<<<NOTE_ON, p, 127>>>>)

SpecPitch == Init /\ [][NextPitch]_vars

\* the control thread alone, every call logged: set_parameter on any index
NextParams ==
    \E iv \in CallInputs :
        /\ SetParameter(iv[1], iv[2])
        /\ control' = logged(control, params, iv[1], iv[2])

SpecParams == Init /\ [][NextParams]_vars

-----------------------------------------------------------------------------
(* Properties *)

\* the loop of the running process call has rendered its last sample
Done == pc = "loop" /\ sample_index = samples

\* C1: last-note priority.  The sounding note is Some(p) exactly when p is
\* the pitch of the most recent note-on and no note-off carrying p arrived
\* after it; otherwise nothing sounds.  The tracker holds at most one note.
C1_LastNotePriority ==
    /\ note = (IF history.on # None /\ ~history.off THEN history.on ELSE None)
    /\ Len(note) <= 1

\* a note still sounds although a note-off for another pitch was the last event
C1_Witness ==
    /\ last.op = "midi"
    /\ last.data[1] = NOTE_OFF
    /\ note # None
    /\ note # Some(last.data[2])
    /\ history.on = note

\* the last event of the list is a note-off for a pitch that is not sounding
\* when it is handled
StaleNoteOffLast(events) ==
    LET data == events[Len(events)]
    IN  /\ data[1] = NOTE_OFF
        /\ process_events(Self, Front(events)).note # Some(data[2])

\* C2: a stale note-off is a no-op.  A note-off for a pitch that is not the
\* sounding note (another pitch sounds, or nothing does) leaves the note, the
\* velocity, the note duration, the clock and the envelope gain as they were
\* before it was handled.
C2_StaleNoteOffNoOp ==
    [][(pc = "host" /\ last'.op = "midi" /\ last'.data[1] = NOTE_OFF) =>
          \A events \in EventLists :
              (/\ events[Len(events)] = last'.data
               /\ StaleNoteOffLast(events)
               /\ ProcessEvents(events)) =>
                  /\ Self' = process_events(Self, Front(events))
                  /\ alpha' = alpha
                  /\ params' = params]_vars

\* a note held for a while is still held, with its duration, after a note-off
\* for the other pitch
C2_Witness ==
    /\ last.op = "midi"
    /\ last.data[1] = NOTE_OFF
    /\ last.before # None
    /\ last.before # Some(last.data[2])
    /\ note = last.before
    /\ note_duration # Zero

\* C3: note-on steals unconditionally.  After note_on(p, v), whatever was
\* sounding before and whatever v is (0 included), the note is Some(p), the
\* velocity is v and the note duration is 0.
C3_NoteOnSteals ==
    (last.op = "midi" /\ last.data[1] = NOTE_ON) =>
        /\ note = Some(last.data[2])
        /\ velocity = last.data[3]
        /\ note_duration = Zero

\* a note-on of velocity 0 has replaced a different note that had been rendered
C3_Witness ==
    /\ last.op = "midi"
    /\ last.data[1] = NOTE_ON
    /\ last.data[3] = 0
    /\ last.before # None
    /\ last.before # Some(last.data[2])
    /\ note = Some(last.data[2])
    /\ time # Zero

\* C4 as stated: every processed block advances the clock by exactly
\* samples / sample_rate, whether or not a note is sounding during the block.
C4_BlockAdvancesClock ==
    Done => time = RAdd(entry.time, Rat(samples, SampleRate))

\* C4, amended: per_sample is added to the clock once for every sample rendered
\* with a note sounding, so a block of `samples` samples advances the clock by
\* samples / sample_rate when a note sounds and leaves it unchanged when none does.
C4_ClockAdvancesWhileSounding ==
    pc = "loop" =>
        time = (IF note # None
                THEN RAdd(entry.time, Rat(sample_index, SampleRate))
                ELSE entry.time)

\* a silent block has been rendered to its end after the clock had advanced
C4_Witness ==
    /\ Done
    /\ samples = MaxBlock
    /\ note = None
    /\ time # Zero
    /\ time = entry.time

\* C5: silence when nothing sounds.  With no note sounding and the envelope
\* idle (no note has been played at all), every sample process writes is
\* exactly 0, whatever the five parameters are.
C5_SilenceWhenIdle ==
    (pc = "loop" /\ note = None /\ history.on = None) =>
        \A buffer_index \in DOMAIN output_buffer :
            \A i \in 1..sample_index :
                output_buffer[buffer_index][i] = Some(Const(Zero))

\* the note was released after the sustain level had been reached: at the
\* note-off it had been held for at least attack + decay seconds
ReleasedInSustain ==
    /\ note = None
    /\ history.off
    /\ history.level # None

\* C6: after a note-off during Sustain the envelope value falls linearly from
\* sustain to 0 over release seconds and then stays 0 until the next note-on:
\* every sample rendered after the release has a gain between 0 and the
\* sustain level, the gain is 0 when release is 0, and from one sample to the
\* next it falls while it is positive and stays 0 once it is 0.
C6_ReleaseFallsFromSustain ==
    [][(ProcessSample /\ ReleasedInSustain) =>
          /\ RLe(Zero, alpha')
          /\ RLe(alpha', history.level[1])
          /\ (params.release = Zero => alpha' = Zero)
          /\ (sample_index >= 1 =>
                 IF alpha = Zero THEN alpha' = Zero ELSE RLt(alpha', alpha))]_vars

\* the envelope of 4.3 once the attack is over, `elapsed` seconds into the note
DecaySustainValue(ps, elapsed) ==
    LET t == RSub(elapsed, ps.attack)
    IN  IF RLt(t, ps.decay)
        THEN RSub(One, RMul(RDiv(t, ps.decay), RSub(One, ps.sustain)))
        ELSE ps.sustain

\* C7: while a note is held the envelope value rises to 1.0 over attack
\* seconds, then falls toward sustain over decay seconds (stays, if sustain is
\* 1.0), then holds at sustain: once the attack is over the gain of a sample is
\* 1 - (t / decay) * (1 - sustain) for t < decay seconds after the attack, and
\* sustain from then on.
C7_DecayThenSustain ==
    [][(ProcessSample /\ note # None /\ RLe(params.attack, note_duration)) =>
          alpha' = DecaySustainValue(params, note_duration)]_vars

\* C8: re-triggering never clicks.  When a note-on arrives while a note is
\* held at full level, the gain of the first sample after it differs from the
\* gain of the last sample before it by less than the full scale (by no more
\* than any epsilon below 1).
C8_RetriggerNoClick ==
    [][(/\ ProcessSample
        /\ entry.retrigger
        /\ sample_index = 0
        /\ note_duration = Zero
        /\ alpha = One) =>
          RLt(RAbs(RSub(alpha', alpha)), One)]_vars

\* the waveform C9 assigns to the oscillator control value c
QuartileShape(c) ==
    IF c[1] < 0 THEN Sine
    ELSE IF 4 * c[1] < c[2] THEN Saw
    ELSE IF 2 * c[1] < c[2] THEN Square
    ELSE IF 4 * c[1] < 3 * c[2] THEN Triangle
    ELSE Sine

\* C9: waveform selection.  Every sample is rendered with Saw for a control
\* value in [0, 0.25), Square in [0.25, 0.5), Triangle in [0.5, 0.75), Sine in
\* [0.75, 1.0), and with Sine for 1.0 and for any value outside [0, 1]; the
\* sample is written in every case.
C9_WaveformSelection ==
    \A i \in 1..Len(frames) :
        /\ frames[i].shape = QuartileShape(frames[i].oscillator)
        /\ \A buffer_index \in DOMAIN output_buffer :
               output_buffer[buffer_index][i] = Some(frames[i].output_sample)

\* samples of one block rendered at the quartile boundary 0.25 (Square) and
\* above the range (the Sine fallback)
C9_Witness ==
    /\ Len(frames) = 2
    /\ frames[1].oscillator = Rat(1, 4)
    /\ frames[1].shape = Square
    /\ RLt(One, frames[2].oscillator)
    /\ frames[2].shape = Sine
    /\ output_buffer[OutputCount][2] = Some(frames[2].output_sample)

\* C10 as stated: within one process call every sample is rendered with the
\* same oscillator shape and the same attack value, also when set_parameter
\* runs during the block.
C10_BlockSnapshot ==
    \A i \in 1..Len(frames) :
        /\ frames[i].shape = frames[1].shape
        /\ frames[i].attack = frames[1].attack

\* C10, amended: the parameters are read once per sample.  Every sample is
\* rendered with the oscillator, attack and release values stored at the moment
\* it is rendered, so a write made during a block is visible from the next
\* sample of that block on.
C10_SampleSnapshot ==
    [][ProcessSample =>
          LET f == frames'[Len(frames')]
          IN  /\ f.oscillator = params.oscillator
              /\ f.attack = (IF note # None THEN Some(params.attack) ELSE None)
              /\ f.release = (IF note = None THEN Some(params.release) ELSE None)]_vars

\* two samples of one block of a held note were rendered with different
\* attack values and with different shapes
C10_Witness ==
    /\ Len(frames) = 2
    /\ note # None
    /\ frames[1].attack # frames[2].attack
    /\ frames[1].shape # frames[2].shape

\* the five indices read through get_parameter
Readback(ps) == [i \in 0..4 |-> get_parameter(ps, i)]

\* C11: an out-of-range parameter index is ignored.  After set_parameter(i, v)
\* with i outside 0..4 the five stored parameters are what they were before
\* the call, and get_parameter(i) for such an i returns 0.0.
C11_OutOfRangeIgnored ==
    /\ \A i \in {5, -1} : get_parameter(params, i) = Zero
    /\ (control.call # None /\ control.call[1][1] \notin 0..4) =>
           /\ params = control.before
           /\ Readback(params) = Readback(control.before)

\* set_parameter(5, 0.5) was the last call, made after attack and release had
\* been moved away from their defaults
C11_Witness ==
    /\ control.call = Some(<<5, Rat(1, 2)>>)
    /\ control.written[1] = Some(One)
    /\ control.written[4] = Some(One)
    /\ params.release = One

\* the defaults C12 names, by index
DefaultByIndex == [i \in 0..4 |-> IF i \in {2, 3} THEN One ELSE Zero]

\* C12: parameter round trip in the index order 0 = oscillator, 1 = attack,
\* 2 = decay, 3 = sustain, 4 = release.  After set_parameter(i, v) with i in
\* 0..4, get_parameter(i) returns v and every other index returns what it
\* returned before; after any sequence of sets each index reads back the last
\* value written to it, or its default 0, 0, 1, 1, 0 if it was never written.
C12_RoundTrip ==
    /\ Readback(params) = [i \in 0..4 |->
                              IF control.written[i] # None
                              THEN control.written[i][1] ELSE DefaultByIndex[i]]
    /\ <<get_parameter(params, 0), get_parameter(params, 1),
          get_parameter(params, 2), get_parameter(params, 3),
          get_parameter(params, 4)>>
           = <<params.oscillator, params.attack, params.decay,
               params.sustain, params.release>>
    /\ (control.call # None /\ control.call[1][1] \in 0..4) =>
           /\ get_parameter(params, control.call[1][1]) = control.call[1][2]
           /\ \A j \in 0..4 \ {control.call[1][1]} :
                  get_parameter(params, j) = get_parameter(control.before, j)

\* decay was just set to 0 after attack had been written; sustain was never
\* written and still reads its default
C12_Witness ==
    /\ control.call = Some(<<2, Zero>>)
    /\ control.written[1] = Some(Rat(1, 2))
    /\ control.written[3] = None
    /\ get_parameter(params, 2) = Zero
    /\ get_parameter(params, 3) = One
    /\ get_parameter(control.before, 2) = One

\* 440 * 2^k for an integer k
OctaveOfA4(k) == IF k >= 0 THEN <<440 * 2^k, 1>> ELSE Rat(440, 2^(-k))

\* C13: for every pitch p in 0..127 the semitone offset midi_pitch_to_freq
\* computes in 8-bit signed arithmetic is p - 69, without overflow or
\* wrap-around, so the frequency is 440 * 2^((p - 69) / 12); for p = 69 the
\* offset is 0 and the frequency is exactly 440.
C13_PitchToFrequency ==
    (note # None /\ note[1] \in 0..127) =>
        LET p == note[1]
            s == semitone_offset(p)
        IN  /\ ~s.overflow
            /\ s.value = p - 69
            /\ freq_exponent(p) = Rat(p - 69, 12)
            /\ ((p - 69) % 12 = 0 =>
                   midi_pitch_to_freq(p) = OctaveOfA4((p - 69) \div 12))
            /\ (p = 69 => s.value = 0 /\ midi_pitch_to_freq(p) = <<440, 1>>)

\* the lowest pitch sounds, taken over from the highest: the offsets -69 and 58
C13_Witness ==
    /\ note = Some(0)
    /\ last.before = Some(127)
    /\ semitone_offset(0).value = -69
    /\ semitone_offset(127).value = 58

\* C14: the square waveform is sign(sin(2 * pi * f * t)) with sign(0) = 0.
\* Whenever the sine argument is exactly zero, which for a positive frequency
\* is at t = 0, square_signal returns 0; otherwise it returns -1 or 1.
C14_SquareSignZero ==
    \A i \in 1..Len(frames) :
        (frames[i].shape = Square /\ frames[i].signal # None) =>
            IF frames[i].time = Zero
            THEN frames[i].signal[1] = Const(Zero)
            ELSE frames[i].signal[1] \in {Const(MinusOne), Const(One)}

\* the phase of a rendered sample: the fractional part of f * t, with f the
\* frequency of the whole octave its pitch is
PhaseOf(f) ==
    LET turns == RMul(f.time, OctaveOfA4((f.note[1] - 69) \div 12))
    IN  RSub(turns, <<RFloor(turns), 1>>)

\* the triangle of C15 at phase p
TriangleAt(p) ==
    IF RLt(p, Rat(1, 4)) THEN RMul(<<4, 1>>, p)
    ELSE IF RLt(p, Rat(3, 4)) THEN RSub(<<2, 1>>, RMul(<<4, 1>>, p))
    ELSE RSub(RMul(<<4, 1>>, p), <<4, 1>>)

C16_AttackRule ==
    \A i \in 1..Len(frames) :
        frames[i].attack # None =>
            LET elapsed == frames[i].note_duration
                attack == frames[i].attack[1]
            IN  /\ frames[i].alpha =
                       (IF RLt(elapsed, attack)
                        THEN Rat(elapsed[1] * attack[2], elapsed[2] * attack[1])
                        ELSE One)
                /\ frames[i].alpha[2] # 0
                /\ RLe(frames[i].alpha, One)
                /\ attack = Zero => frames[i].alpha = One
                /\ (i > 1 /\ frames[i - 1].attack = frames[i].attack) =>
                       RLe(frames[i - 1].alpha, frames[i].alpha)

\* a block rendered at the end of the ramp: its first sample is one sample
\* short of the attack time, its second at full gain
C16_Witness ==
    /\ Len(frames) = 2
    /\ frames[1].attack = Some(Rat(AttackSamples, SampleRate))
    /\ frames[2].attack = frames[1].attack
    /\ frames[1].note_duration = Rat(AttackSamples - 1, SampleRate)
    /\ frames[1].alpha = Rat(AttackSamples - 1, AttackSamples)
    /\ frames[2].alpha = One

\* C17: MIDI dispatch.  process_midi_event acts only on status byte 128, where
\* it clears the note if it has the pitch data[1], and on status byte 144,
\* where it stores note data[1] and velocity data[2] and zeroes the note
\* duration; for every other status byte the note, the velocity, the note
\* duration and the clock are left unchanged.  The clock is unchanged in all.
C17_MidiDispatch ==
    [][(pc = "host" /\ last'.op = "midi") =>
          \A events \in EventLists :
              (/\ Len(events) = 1
               /\ events[1] = last'.data
               /\ ProcessEvents(events)) =>
                  LET status == events[1][1]
                      pitch == events[1][2]
                  IN  /\ time' = time
                      /\ status = 128 =>
                             /\ note' = (IF note = Some(pitch) THEN None ELSE note)
                             /\ velocity' = velocity
                             /\ note_duration' = note_duration
                      /\ status = 144 =>
                             /\ note' = Some(pitch)
                             /\ velocity' = events[1][3]
                             /\ note_duration' = Zero
                      /\ status \notin {128, 144} =>
                             /\ note' = note
                             /\ velocity' = velocity
                             /\ note_duration' = note_duration]_vars

\* a control change carrying the pitch of the held note was the last event:
\* the note is still held, with its velocity and the duration it had reached
C17_Witness ==
    /\ last.op = "midi"
    /\ last.data[1] = 176
    /\ note = Some(last.data[2])
    /\ last.before = note
    /\ velocity = 127
    /\ note_duration # Zero

\* C18: the clock never goes backwards.  Across every operation the
\* accumulated time does not decrease, and only a sample rendered by process
\* with a note sounding changes it: note-on, retrigger, note-off, any other
\* MIDI event and set_parameter leave it exactly as it was.
C18_ClockMonotonic ==
    [][/\ RLe(time, time')
       /\ time' # time =>
              /\ pc = "loop"
              /\ sample_index' = sample_index + 1
              /\ note # None]_vars

\* a note-on has just replaced a note that had been rendered: the note
\* duration is back at 0 and the clock is where the rendering left it
C18_Witness ==
    /\ last.op = "midi"
    /\ last.data[1] = NOTE_ON
    /\ last.before # None
    /\ note_duration = Zero
    /\ time = Rat(MaxBlock, SampleRate)
    /\ note = Some(last.data[2])

\* C19: mono duplication.  When process has rendered its block, every sample
\* position of every output channel has been written, and at every position
\* all channels hold the same value.
C19_MonoDuplication ==
    Done =>
        /\ Len(output_buffer) = OutputCount
        /\ \A buffer_index \in 1..OutputCount :
               /\ Len(output_buffer[buffer_index]) = samples
               /\ \A i \in 1..samples :
                      /\ output_buffer[buffer_index][i] # None
                      /\ output_buffer[buffer_index][i] = output_buffer[1][i]

\* a finished block of the largest size whose samples differ from each other
\* and are not silence
C19_Witness ==
    /\ Done
    /\ samples = MaxBlock
    /\ output_buffer[OutputCount][1] # output_buffer[OutputCount][MaxBlock]
    /\ output_buffer[OutputCount][MaxBlock] # Some(Const(Zero))
    /\ output_buffer[1][MaxBlock] = output_buffer[OutputCount][MaxBlock]

\* the step is one of process: its entry, one loop iteration, or its return
ProcessStep == pc' # pc \/ sample_index' # sample_index

\* C20: rendering never alters the note tracker or the parameters.  A process
\* call leaves the sounding note, its velocity and the five parameter values
\* unchanged, so a held note is still held after any number of blocks; while a
\* note is held the note duration and the clock advance by the same amount,
\* and the note duration is at most the clock time in every reachable state.
C20_RenderingFrame ==
    /\ [](RLe(note_duration, time))
    /\ [][ProcessStep =>
              /\ note' = note
              /\ velocity' = velocity
              /\ params' = params
              /\ RSub(note_duration', note_duration) = RSub(time', time)
              /\ (note # None /\ sample_index' = sample_index + 1) =>
                     time' = RAdd(time, Rat(1, SampleRate))]_vars

\* a second note has been held across a whole block and its rendering is
\* over: it still sounds, and its duration is behind the clock
C20_Witness ==
    /\ pc = "host"
    /\ last.op = "process"
    /\ last.before = note
    /\ note # None
    /\ RLt(Zero, note_duration)
    /\ RLt(note_duration, time)
    /\ params # DefaultParameters

====
